---- MODULE Spec2Model ----
(***************************************************************************)
(* A model of the two programs of the repository:                          *)
(*   examples/exNDH1.cpp            main(), one process per MPI rank        *)
(*   miniapps/hypsys/lib/fe_evol.cpp FE_Evolution (constructor,             *)
(*                                   LaxFriedrichs, ConvergenceCheck)       *)
(* main() is modelled section by section (the numbered comments 1..14 of   *)
(* the source); every section appends the library calls, allocations and   *)
(* deallocations it makes, in source order, to the rank's log.             *)
(***************************************************************************)
EXTENDS Integers, Sequences, FiniteSets, TLC

VARIABLES
  \* ---- exNDH1 main ----
  argv,      \* the command line: what args.Parse() will find
  meshfile,  \* the mesh file's content: [ne, dim]
  pc,        \* pc[r]: the section rank r executes next
  opt,       \* opt[r]: static_cond, pa, visualization of rank r
  ne,        \* ne[r]: number of elements of rank r's current (global) mesh
  xval,      \* xval[r]: what the grid function x of rank r holds
  exit,      \* exit[r]: main's return value, -1 while running
  log,       \* log[r]: the events of rank r so far
  \* ---- FE_Evolution ----
  fecol,     \* fes->FEColl()->Name(), a sequence of characters
  cpc,       \* the constructor's position
  built,     \* the members the constructor has built so far
  abortMsg,  \* the message of MFEM_ABORT, "" when none
  hyp,       \* the hyperbolic system
  lf,        \* the last LaxFriedrichs call: its arguments and its result
  uOld, z,   \* members of FE_Evolution used by ConvergenceCheck
  MassMat, LumpedMassMat,
  cc         \* the last ConvergenceCheck call: its arguments and its result

mainVars == <<argv, meshfile, pc, opt, ne, xval, exit, log>>
ctorVars == <<fecol, cpc, built, abortMsg>>
lfVars   == <<hyp, lf>>
ccVars   == <<uOld, z, MassMat, LumpedMassMat, cc>>
vars     == <<mainVars, ctorVars, lfVars, ccVars>>

(***************************************************************************)
(* Bounds of the model.                                                    *)
(***************************************************************************)
NumProcs  == 2      \* MPI ranks
MaxNE     == 1001   \* elements of the mesh file, runs of the refinement

Ranks == 0 .. NumProcs - 1

(***************************************************************************)
(* Sequences of characters.                                                *)
(***************************************************************************)
RECURSIVE Repeat(_, _)
Repeat(c, n) == IF n <= 0 THEN <<>> ELSE <<c>> \o Repeat(c, n - 1)

DigitChar == <<"0", "1", "2", "3", "4", "5", "6", "7", "8", "9">>

\* operator<<(int): the decimal digits of n >= 0
RECURSIVE Digits(_)
Digits(n) == IF n < 10 THEN <<DigitChar[n + 1]>>
             ELSE Digits(n \div 10) \o <<DigitChar[(n % 10) + 1]>>

\* setfill(c) << setw(w) << s: s padded on the left to width w, never cut
SetwFill(s, w, c) == Repeat(c, w - Len(s)) \o s

NameWidth == 6

MeshName(myid) == <<"m", "e", "s", "h", ".">> \o SetwFill(Digits(myid), NameWidth, "0")
SolName(myid)  == <<"s", "o", "l", ".">> \o SetwFill(Digits(myid), NameWidth, "0")

VisPort == 19916
SocketName == <<"localhost">> \o Digits(VisPort)

(***************************************************************************)
(* Events of a rank's log.                                                 *)
(*   act  : "call", "new", "delete", "print", "open", "close", "destroy",  *)
(*          "return"                                                       *)
(*   what : the call, the object, or the stream                            *)
(*   uses : the heap objects the statement dereferences                    *)
(*   arg  : a file name, the content of x, or the return value             *)
(***************************************************************************)
Ev(act, what, uses) == [act |-> act, what |-> what, uses |-> uses, arg |-> <<>>]
EvA(act, what, uses, arg) == [act |-> act, what |-> what, uses |-> uses, arg |-> arg]
Call(what, uses) == Ev("call", what, uses)
New(what, uses)  == Ev("new", what, uses)
Delete(what)     == Ev("delete", what, {})
\* the end of an automatic object's scope: its destructor runs
Destroy(what)    == Ev("destroy", what, {})
Close(what)      == Ev("close", what, {})
If(c, s)         == IF c THEN s ELSE <<>>

RECURSIVE Pow(_, _)
Pow(b, e) == IF e <= 0 THEN 1 ELSE b * Pow(b, e - 1)

(***************************************************************************)
(* Section 4: the serial refinement.                                       *)
(***************************************************************************)
ElemTarget == 1000

\* floor(log(1000./NE)/log(2.)/dim) for NE >= 1: the largest integer r with
\* 2^(dim*r) <= 1000/NE, negative when NE > 1000.
RECURSIVE FloorUp(_, _, _)
FloorUp(NE, d, r) == IF NE * Pow(2, d * (r + 1)) <= ElemTarget
                     THEN FloorUp(NE, d, r + 1) ELSE r
RECURSIVE FloorDown(_, _, _)
FloorDown(NE, d, k) == IF NE <= ElemTarget * Pow(2, d * k)
                       THEN 0 - k ELSE FloorDown(NE, d, k + 1)

\* the division by dim forgotten
RefLevelsNoDim(NE, d) == IF NE <= ElemTarget THEN FloorUp(NE, 1, 0)
                         ELSE FloorDown(NE, 1, 1)

RefLevels(NE, d) == IF NE <= ElemTarget THEN FloorUp(NE, d, 0)
                    ELSE FloorDown(NE, d, 1)

\* Mesh::UniformRefinement: every element is split into 2^dim elements
UniformRefinement(n, d) == n * Pow(2, d)

\* for (int l = 0; l < ref_levels; l++) { mesh->UniformRefinement(); }
RECURSIVE RefineLoop(_, _, _, _)
RefineLoop(l, ref_levels, n, d) ==
  IF l < ref_levels THEN RefineLoop(l + 1, ref_levels, UniformRefinement(n, d), d)
  ELSE n

RECURSIVE RefineEvents(_, _)
RefineEvents(l, ref_levels) ==
  IF l < ref_levels
  THEN <<Call("mesh->UniformRefinement", {"mesh"})>> \o RefineEvents(l + 1, ref_levels)
  ELSE <<>>

ParRefLevels == 1

(***************************************************************************)
(* The sections of main as the events they append.                         *)
(***************************************************************************)
Sec1Events == <<Call("MPI_Init", {}), Call("MPI_Comm_size", {}),
                Call("MPI_Comm_rank", {})>>

\* the usage printed by every rank
Sec2EventsAllPrint(myid, good) ==
  <<Call("args.AddOption", {}), Call("args.Parse", {}), Call("args.Good", {})>>
  \o (IF ~good
      THEN <<Ev("print", "args.PrintUsage", {}),
             Call("MPI_Finalize", {}), Destroy("args"),
             EvA("return", "main", {}, <<1>>)>>
      ELSE If(myid = 0, <<Ev("print", "args.PrintOptions", {})>>))

Sec2Events(myid, good) ==
  <<Call("args.AddOption", {}), Call("args.Parse", {}), Call("args.Good", {})>>
  \o (IF ~good
      THEN If(myid = 0, <<Ev("print", "args.PrintUsage", {})>>)
           \o <<Call("MPI_Finalize", {}), Destroy("args"),
                EvA("return", "main", {}, <<1>>)>>
      ELSE If(myid = 0, <<Ev("print", "args.PrintOptions", {})>>))

Sec3Events == <<New("mesh", {}), Call("mesh->Dimension", {"mesh"}),
                Call("mesh->SpaceDimension", {"mesh"})>>

Sec4Events(n, d) == <<Call("mesh->GetNE", {"mesh"})>>
                    \o RefineEvents(0, RefLevels(n, d))

Sec5Events ==
  <<New("pmesh", {"mesh"}), Delete("mesh")>>
  \o Repeat(Call("pmesh->UniformRefinement", {"pmesh"}), ParRefLevels)
  \o <<Call("pmesh->ReorientTetMesh", {"pmesh"})>>

Sec6Events(myid) ==
  <<New("fec", {}), New("H1fec", {}),
    New("fespace", {"pmesh", "fec"}), New("H1fespace", {"pmesh", "H1fec"}),
    Call("fespace->GlobalTrueVSize", {"fespace"})>>
  \o If(myid = 0, <<Ev("print", "Number of finite element unknowns", {})>>)

Sec7Events ==
  <<Call("ParGridFunction x", {"fespace"}), Call("ParGridFunction p", {"H1fespace"}),
    Call("p.ProjectCoefficient", {"H1fespace"})>>

Sec8Events(o) ==
  <<New("muinv", {}), New("sigma", {}),
    New("a", {"fespace"}), New("a_NDH1", {"H1fespace", "fespace"})>>
  \o If(o.pa, <<Call("a->SetAssemblyLevel", {"a"}),
                Call("a_NDH1->SetAssemblyLevel", {"a_NDH1"})>>)
  \o <<Call("a->AddDomainIntegrator", {"a", "sigma"}),
       Call("a_NDH1->AddDomainIntegrator", {"a_NDH1", "muinv"})>>

Sec9Events(o) ==
  If(o.static_cond, <<Call("a->EnableStaticCondensation", {"a"})>>)
  \o <<Call("a->Assemble", {"a", "fespace", "sigma"})>>
  \o If(~o.pa, <<Call("a->Finalize", {"a"})>>)
  \o <<Call("a_NDH1->Assemble", {"a_NDH1", "fespace", "H1fespace", "muinv"})>>
  \o If(~o.pa, <<Call("a_NDH1->Finalize", {"a_NDH1"})>>)
  \o <<Call("Vector B", {"fespace"}), Call("Vector X", {"fespace"})>>
  \o (IF o.pa
      THEN <<Call("a_NDH1->Mult", {"a_NDH1", "fespace", "H1fespace", "muinv"}),
             Call("x.GetTrueDofs", {"fespace"})>>
      ELSE <<New("NDH1", {"a_NDH1"}), Call("Vector P", {"H1fespace"}),
             Call("p.GetTrueDofs", {"H1fespace"}), Call("NDH1->Mult", {"NDH1"}),
             Delete("NDH1"), Destroy("P")>>)

\* x after section 9: a_NDH1->Mult(p, x) writes the right-hand side into x
Sec9X(o, x) == IF o.pa THEN "rhs" ELSE x

Sec10Events(o) ==
  IF o.pa
  THEN <<Call("ParGridFunction diag_pa", {"fespace"}),
         Call("a->AssembleDiagonal", {"a", "fespace", "sigma"}),
         Call("Vector tdiag_pa", {"fespace"}),
         Call("diag_pa.GetTrueDofs", {"fespace"}),
         Call("Array<int> ess_tdof_list", {}),
         Call("OperatorJacobiSmoother Jacobi", {}),
         Call("CGSolver cg", {}), Call("cg.SetRelTol", {}), Call("cg.SetMaxIter", {}),
         Call("cg.SetPrintLevel", {}), Call("cg.SetOperator", {"a"}),
         Call("cg.SetPreconditioner", {}),
         Call("ParGridFunction rhs", {"fespace"}),
         Call("cg.Mult", {"a", "fespace", "sigma"}),
         Destroy("rhs"), Destroy("cg"), Destroy("Jacobi"), Destroy("ess_tdof_list"),
         Destroy("tdiag_pa"), Destroy("diag_pa")>>
  ELSE <<New("Amat", {"a"}), New("pcg", {"Amat"}),
         Call("pcg->SetTol", {"pcg"}), Call("pcg->SetMaxIter", {"pcg"}),
         Call("pcg->SetPrintLevel", {"pcg"}), Call("pcg->Mult", {"pcg", "Amat"}),
         Delete("pcg"), Delete("Amat"),
         Call("x.SetFromTrueDofs", {"fespace"})>>

\* x after section 10: cg.Mult(rhs, x), or x.SetFromTrueDofs(X) after pcg->Mult(B, X)
\* cg.Mult writing its result into rhs instead of x
Sec10XStale(o, x) == IF o.pa THEN x ELSE "solution"

Sec10X(o, x) == "solution"

Sec11Events(myid, x) ==
  <<EvA("call", "x.ComputeL2Error", {"fespace", "pmesh"}, <<x>>)>>
  \o If(myid = 0, <<Ev("print", "|| E_h - E ||_{L^2}", {})>>)

\* the solution written under the mesh file's name
Sec12SwappedEvents(myid) ==
  <<EvA("open", "ofstream mesh_ofs", {}, MeshName(myid)),
    Call("pmesh->Print", {"pmesh"}),
    EvA("open", "ofstream sol_ofs", {}, MeshName(myid)),
    Call("x.Save", {"fespace"}),
    Close("ofstream sol_ofs"), Close("ofstream mesh_ofs")>>

Sec12Events(myid) ==
  <<EvA("open", "ofstream mesh_ofs", {}, MeshName(myid)),
    Call("pmesh->Print", {"pmesh"}),
    EvA("open", "ofstream sol_ofs", {}, SolName(myid)),
    Call("x.Save", {"fespace"}),
    Close("ofstream sol_ofs"), Close("ofstream mesh_ofs")>>

Sec13Events(o) ==
  If(o.visualization,
     <<EvA("open", "socketstream sol_sock", {}, SocketName),
       Call("sol_sock <<", {"pmesh", "fespace"}),
       Close("socketstream sol_sock")>>)

\* fespace deleted before the forms defined on it
Sec14EarlyEvents ==
  <<Delete("fespace"), Delete("a"), Delete("a_NDH1"), Delete("sigma"), Delete("muinv"),
    Delete("H1fespace"), Delete("fec"), Delete("H1fec"),
    Delete("pmesh"), Call("MPI_Finalize", {}),
    Destroy("X"), Destroy("B"), Destroy("gradp_coef"), Destroy("p"), Destroy("p_coef"),
    Destroy("x"), Destroy("args"), EvA("return", "main", {}, <<0>>)>>

Sec14Events ==
  <<Delete("a"), Delete("a_NDH1"), Delete("sigma"), Delete("muinv"),
    Delete("fespace"), Delete("H1fespace"), Delete("fec"), Delete("H1fec"),
    Delete("pmesh"), Call("MPI_Finalize", {}),
    Destroy("X"), Destroy("B"), Destroy("gradp_coef"), Destroy("p"), Destroy("p_coef"),
    Destroy("x"), Destroy("args"), EvA("return", "main", {}, <<0>>)>>

(***************************************************************************)
(* main, one action per section.                                           *)
(***************************************************************************)
DefaultOpt == [static_cond |-> FALSE, pa |-> FALSE, visualization |-> TRUE]

Append_(r, evs) == log' = [log EXCEPT ![r] = @ \o evs]
Goto(r, l)      == pc' = [pc EXCEPT ![r] = l]

MpiInit(r) ==
  /\ pc[r] = "start"
  /\ Append_(r, Sec1Events)
  /\ Goto(r, "parse")
  /\ UNCHANGED <<argv, meshfile, opt, ne, xval, exit>>

ParseOptions(r) ==
  /\ pc[r] = "parse"
  /\ Append_(r, Sec2Events(r, argv.good))
  /\ opt' = [opt EXCEPT ![r] = IF argv.good THEN argv.opt ELSE @]
  /\ exit' = [exit EXCEPT ![r] = IF argv.good THEN @ ELSE 1]
  /\ Goto(r, IF argv.good THEN "mesh" ELSE "done")
  /\ UNCHANGED <<argv, meshfile, ne, xval>>

ReadMesh(r) ==
  /\ pc[r] = "mesh"
  /\ Append_(r, Sec3Events)
  /\ ne' = [ne EXCEPT ![r] = meshfile.ne]
  /\ Goto(r, "refine")
  /\ UNCHANGED <<argv, meshfile, opt, xval, exit>>

RefineSerial(r) ==
  /\ pc[r] = "refine"
  /\ Append_(r, Sec4Events(ne[r], meshfile.dim))
  /\ ne' = [ne EXCEPT ![r] = RefineLoop(0, RefLevels(@, meshfile.dim), @, meshfile.dim)]
  /\ Goto(r, "parmesh")
  /\ UNCHANGED <<argv, meshfile, opt, xval, exit>>

BuildParMesh(r) ==
  /\ pc[r] = "parmesh"
  /\ Append_(r, Sec5Events)
  /\ ne' = [ne EXCEPT ![r] = RefineLoop(0, ParRefLevels, @, meshfile.dim)]
  /\ Goto(r, "spaces")
  /\ UNCHANGED <<argv, meshfile, opt, xval, exit>>

BuildSpaces(r) ==
  /\ pc[r] = "spaces"
  /\ Append_(r, Sec6Events(r) \o Sec7Events)
  /\ Goto(r, "forms")
  /\ UNCHANGED <<argv, meshfile, opt, ne, xval, exit>>

SetUpForms(r) ==
  /\ pc[r] = "forms"
  /\ Append_(r, Sec8Events(opt[r]))
  /\ Goto(r, "assemble")
  /\ UNCHANGED <<argv, meshfile, opt, ne, xval, exit>>

Assemble(r) ==
  /\ pc[r] = "assemble"
  /\ Append_(r, Sec9Events(opt[r]))
  /\ xval' = [xval EXCEPT ![r] = Sec9X(opt[r], @)]
  /\ Goto(r, "solve")
  /\ UNCHANGED <<argv, meshfile, opt, ne, exit>>

Solve(r) ==
  /\ pc[r] = "solve"
  /\ Append_(r, Sec10Events(opt[r]))
  /\ xval' = [xval EXCEPT ![r] = Sec10X(opt[r], @)]
  /\ Goto(r, "error")
  /\ UNCHANGED <<argv, meshfile, opt, ne, exit>>

ComputeError(r) ==
  /\ pc[r] = "error"
  /\ Append_(r, Sec11Events(r, xval[r]))
  /\ Goto(r, "save")
  /\ UNCHANGED <<argv, meshfile, opt, ne, xval, exit>>

SaveFiles(r) ==
  /\ pc[r] = "save"
  /\ Append_(r, Sec12Events(r))
  /\ Goto(r, "vis")
  /\ UNCHANGED <<argv, meshfile, opt, ne, xval, exit>>

Visualize(r) ==
  /\ pc[r] = "vis"
  /\ Append_(r, Sec13Events(opt[r]))
  /\ Goto(r, "free")
  /\ UNCHANGED <<argv, meshfile, opt, ne, xval, exit>>

FreeAndFinalize(r) ==
  /\ pc[r] = "free"
  /\ Append_(r, Sec14Events)
  /\ exit' = [exit EXCEPT ![r] = 0]
  /\ Goto(r, "done")
  /\ UNCHANGED <<argv, meshfile, opt, ne, xval>>

Options == [static_cond : BOOLEAN, pa : BOOLEAN, visualization : BOOLEAN]
Dims    == {1, 2, 3}
\* the meshes of the runs of the whole main: one that is refined twice, one
\* that is too large to be refined
MainMeshes == {[ne |-> 8, dim |-> 3], [ne |-> 1200, dim |-> 2]}

\* the parts of the state a specification does not use
IdleHyp == [v |-> <<0>>, NumEq |-> 1, nonlinear |-> FALSE, SteadyState |-> FALSE]

NoLF == [called |-> FALSE, x1 |-> <<>>, x2 |-> <<>>, normal |-> <<>>, pos |-> 0,
         y |-> <<>>, Flux |-> <<>>, FluxNbr |-> <<>>]

NoCC == [called |-> FALSE, crashed |-> FALSE, first |-> FALSE, u |-> <<>>,
         prev |-> <<>>, dt |-> 1, tol |-> 0, res |-> [sq |-> 0, dt |-> 1]]

IdleMain ==
  /\ argv = [good |-> FALSE, opt |-> DefaultOpt]
  /\ meshfile = [ne |-> 1, dim |-> 1]
  /\ pc = [r \in Ranks |-> "done"]
  /\ opt = [r \in Ranks |-> DefaultOpt]
  /\ ne = [r \in Ranks |-> 0]
  /\ xval = [r \in Ranks |-> "uninit"]
  /\ exit = [r \in Ranks |-> -1]
  /\ log = [r \in Ranks |-> <<>>]

IdleCtor == fecol = <<>> /\ cpc = "idle" /\ built = {} /\ abortMsg = ""
IdleLF   == hyp = IdleHyp /\ lf = NoLF
IdleCC   == uOld = <<>> /\ z = <<>> /\ MassMat = <<>> /\ LumpedMassMat = <<>> /\ cc = NoCC

InitMain ==
  /\ argv \in [good : BOOLEAN, opt : Options]
  /\ meshfile \in MainMeshes
  /\ pc = [r \in Ranks |-> "start"]
  /\ opt = [r \in Ranks |-> DefaultOpt]
  /\ ne = [r \in Ranks |-> 0]
  /\ xval = [r \in Ranks |-> "uninit"]
  /\ exit = [r \in Ranks |-> -1]
  /\ log = [r \in Ranks |-> <<>>]
  /\ IdleCtor /\ IdleLF /\ IdleCC

NextMain ==
  /\ \E r \in Ranks :
       \/ MpiInit(r)
       \/ ParseOptions(r)
       \/ ReadMesh(r)
       \/ RefineSerial(r)
       \/ BuildParMesh(r)
       \/ BuildSpaces(r)
       \/ SetUpForms(r)
       \/ Assemble(r)
       \/ Solve(r)
       \/ ComputeError(r)
       \/ SaveFiles(r)
       \/ Visualize(r)
       \/ FreeAndFinalize(r)
  /\ UNCHANGED <<ctorVars, lfVars, ccVars>>

SpecMain == InitMain /\ [][NextMain]_vars

\* the mesh reading and the serial refinement alone, on every mesh size
InitRefine ==
  /\ argv = [good |-> TRUE, opt |-> DefaultOpt]
  /\ meshfile \in [ne : 1 .. MaxNE, dim : Dims]
  /\ pc = [r \in Ranks |-> "mesh"]
  /\ opt = [r \in Ranks |-> DefaultOpt]
  /\ ne = [r \in Ranks |-> 0]
  /\ xval = [r \in Ranks |-> "uninit"]
  /\ exit = [r \in Ranks |-> -1]
  /\ log = [r \in Ranks |-> <<>>]
  /\ IdleCtor /\ IdleLF /\ IdleCC

NextRefine ==
  /\ \E r \in Ranks :
       \/ ReadMesh(r)
       \/ RefineSerial(r)
  /\ UNCHANGED <<ctorVars, lfVars, ccVars>>

SpecRefine == InitRefine /\ [][NextRefine]_vars

(***************************************************************************)
(* FE_Evolution::FE_Evolution.                                             *)
(***************************************************************************)
MaxNameLen == 5
NameChars  == {"L", "2", "_", "T", "H"}
Names      == UNION {[1 .. n -> NameChars] : n \in 0 .. MaxNameLen}

NUL == "NUL"
\* the i-th char of the C string s, its terminating NUL included
CharAt(s, i) == IF i <= Len(s) THEN s[i] ELSE NUL

\* strncmp(s, t, n): 0 when the first n chars agree, or the strings agree up
\* to a common NUL before that; 1 stands for any nonzero value
RECURSIVE StrNCmpFrom(_, _, _, _)
StrNCmpFrom(s, t, i, n) ==
  IF i > n THEN 0
  ELSE IF CharAt(s, i) # CharAt(t, i) THEN 1
  ELSE IF CharAt(s, i) = NUL THEN 0
  ELSE StrNCmpFrom(s, t, i + 1, n)

\* the last of the n chars never compared
StrNCmpShort(s, t, n) == StrNCmpFrom(s, t, 1, n - 1)

StrNCmp(s, t, n) == StrNCmpFrom(s, t, 1, n)

MsgDG        == "FiniteElementSpace must be L2 conforming (DG)."
MsgBernstein == "Shape functions must be represented in Bernstein basis."
MsgInward    == "First element has inward pointing normal."

\* MFEM_ABORT(msg): the message is reported and the program ends
MfemAbort(msg) == cpc' = "aborted" /\ abortMsg' = msg

\* lines 5-7: the member initialisers
MemberInit ==
  /\ cpc = "init"
  /\ built' = built \cup {"z", "inflow"}
  /\ cpc' = "check"
  /\ UNCHANGED <<fecol, abortMsg>>

\* lines 9-17
CheckSpace ==
  /\ cpc = "check"
  /\ IF StrNCmp(fecol, <<"L", "2">>, 2) # 0
     THEN MfemAbort(MsgDG)
     ELSE IF StrNCmp(fecol, <<"L", "2", "_", "T", "2">>, 5) # 0
     THEN MfemAbort(MsgBernstein)
     ELSE cpc' = "rules" /\ abortMsg' = abortMsg
  /\ UNCHANGED <<fecol, built>>

\* lines 20-21
BuildIntRules ==
  /\ cpc = "rules"
  /\ built' = built \cup {"IntRuleElem", "IntRuleFace"}
  /\ cpc' = "members"
  /\ UNCHANGED <<fecol, abortMsg>>

\* lines 23-61
BuildMembers ==
  /\ cpc = "members"
  /\ built' = built \cup {"ShapeEval", "DShapeEval", "ShapeEvalFace", "ElemInt",
                          "BdrInt", "OuterUnitNormals", "MassMat", "InvMassMat",
                          "LumpedMassMat", "Flux", "FluxNbr"}
  /\ cpc' = "facepoints"
  /\ UNCHANGED <<fecol, abortMsg>>

\* lines 64-91: a face of element 0 whose Elem1No is not 0 aborts
FillFacePoints ==
  /\ cpc = "facepoints"
  /\ \E inward \in BOOLEAN :
       IF inward THEN MfemAbort(MsgInward)
       ELSE cpc' = "precompute" /\ abortMsg' = abortMsg
  /\ UNCHANGED <<fecol, built>>

\* lines 93-184
Precompute ==
  /\ cpc = "precompute"
  /\ built' = built \cup {"ShapeEval values", "ShapeEvalFace values",
                          "ElemInt values", "BdrInt values", "normals"}
  /\ cpc' = "inflow"
  /\ UNCHANGED <<fecol, abortMsg>>

\* lines 186-196
ProjectInflow ==
  /\ cpc = "inflow"
  /\ \E TimeDepBC \in BOOLEAN, ProjType \in BOOLEAN :
       built' = IF TimeDepBC THEN built
                ELSE IF ~ProjType THEN built \cup {"inflow L2_Projection"}
                ELSE built \cup {"inflow ProjectCoefficient"}
  /\ cpc' = "done"
  /\ UNCHANGED <<fecol, abortMsg>>

InitCtor ==
  /\ fecol \in Names
  /\ cpc = "init"
  /\ built = {}
  /\ abortMsg = ""
  /\ IdleMain /\ IdleLF /\ IdleCC

NextCtor ==
  /\ \/ MemberInit
     \/ CheckSpace
     \/ BuildIntRules
     \/ BuildMembers
     \/ FillFacePoints
     \/ Precompute
     \/ ProjectInflow
  /\ UNCHANGED <<mainVars, lfVars, ccVars>>

SpecCtor == InitCtor /\ [][NextCtor]_vars

\* C2: a collection name that does not begin with "L2" aborts the
\* constructor with the DG message, one that begins with "L2" but not with
\* "L2_T2" aborts it with the Bernstein message, in both cases before any
\* integration rule, mass matrix, shape table or inflow projection is built;
\* construction completes only for names that begin with "L2_T2".
HasPrefix(s, p) == Len(s) >= Len(p) /\ SubSeq(s, 1, Len(p)) = p
Checked == cpc \notin {"init", "check"}
AfterCheck == built \ {"z", "inflow"}

C2_RejectsNonDG ==
  /\ Checked =>
       IF ~HasPrefix(fecol, <<"L", "2">>)
       THEN cpc = "aborted" /\ abortMsg = MsgDG /\ AfterCheck = {}
       ELSE IF ~HasPrefix(fecol, <<"L", "2", "_", "T", "2">>)
       THEN cpc = "aborted" /\ abortMsg = MsgBernstein /\ AfterCheck = {}
       ELSE abortMsg \notin {MsgDG, MsgBernstein}
  /\ ~Checked => AfterCheck = {} /\ abortMsg = ""
  /\ cpc = "done" => HasPrefix(fecol, <<"L", "2", "_", "T", "2">>)

C2_Witness ==
  /\ cpc = "aborted" /\ abortMsg = MsgBernstein
  /\ fecol = <<"L", "2", "_", "T">>

(***************************************************************************)
(* Numbers.  A double is held as the integer that counts its halves, so    *)
(* that the multiplication by 0.5 is exact on the whole numbers the model  *)
(* draws its inputs from.                                                  *)
(***************************************************************************)
Fix(n)    == 2 * n            \* the whole number n
Whole(a)  == a \div 2         \* the whole number a stands for
Mul(a, b) == (a * b) \div 2   \* the product
Half      == 1                \* 0.5
Abs(a)    == IF a < 0 THEN 0 - a ELSE a
Max(a, b) == IF a < b THEN b ELSE a

RECURSIVE SumTo(_, _)
SumTo(f, n) == IF n = 0 THEN 0 ELSE SumTo(f, n - 1) + f[n]

\* Vector and DenseMatrix operations; a matrix is the sequence of its rows
VecAdd(a, b)   == [i \in 1 .. Len(a) |-> a[i] + b[i]]
VecSub(a, b)   == [i \in 1 .. Len(a) |-> a[i] - b[i]]
VecScale(c, a) == [i \in 1 .. Len(a) |-> Mul(c, a[i])]
MatAdd(A, B)   == [m \in 1 .. Len(A) |-> VecAdd(A[m], B[m])]
Dot(a, b)      == SumTo([d \in 1 .. Len(a) |-> Mul(a[d], b[d])], Len(a))
MatVec(A, x)   == [m \in 1 .. Len(A) |-> Dot(A[m], x)]
\* subtract(a, x, y, z): z = a * (x - y)
Subtract(a, x, y) == [i \in 1 .. Len(x) |-> Mul(a, x[i] - y[i])]

(***************************************************************************)
(* The hyperbolic system behind hyp: a flux F(u)(m,d) and a wave speed,    *)
(* both of which may depend on the position (e,k,i).                       *)
(***************************************************************************)
MaxVal == 1
Vals   == {Fix(n) : n \in (0 - MaxVal) .. MaxVal}
Velocities == {<<Fix(1)>>, <<Fix(-2)>>, <<Fix(1), Fix(0)>>, <<Fix(1), Fix(-1)>>,
               <<Fix(-2), Fix(1)>>}
Normals(d) == IF d = 1 THEN {<<Fix(1)>>, <<Fix(-1)>>}
              ELSE {<<Fix(1), Fix(0)>>, <<Fix(0), Fix(1)>>, <<Fix(-1), Fix(0)>>,
                    <<Fix(0), Fix(-1)>>, <<Fix(1), Fix(1)>>}
Positions == {0, 1}
HypSystems == [v : Velocities, NumEq : {1, 2}, nonlinear : BOOLEAN,
               SteadyState : {FALSE}]

\* the velocity at a position: v, or v reversed
VelAt(h, pos) == [d \in 1 .. Len(h.v) |-> IF pos = 0 THEN h.v[d] ELSE 0 - h.v[d]]

\* hyp->EvaluateFlux(u, Flux, e, k, i): v(d)*u(m), or v(d)*u(m)^2
EvaluateFlux(h, u, pos) ==
  [m \in 1 .. h.NumEq |->
     [d \in 1 .. Len(h.v) |->
        IF h.nonlinear THEN Mul(VelAt(h, pos)[d], Mul(u[m], u[m]))
        ELSE Mul(VelAt(h, pos)[d], u[m])]]

\* hyp->GetWaveSpeed(u, n, e, k, i): |v.n|, or 2*|u(1)|*|v.n|
GetWaveSpeed(h, u, n, pos) ==
  IF h.nonlinear THEN Mul(Fix(2), Mul(Abs(u[1]), Abs(Dot(VelAt(h, pos), n))))
  ELSE Abs(Dot(VelAt(h, pos), n))

(***************************************************************************)
(* FE_Evolution::LaxFriedrichs.                                            *)
(***************************************************************************)
\* the difference taken as x2 - x1
LaxFriedrichsSwapped(h, x1, x2, normal, pos) ==
  LET Flux0   == EvaluateFlux(h, x1, pos)
      FluxNbr == EvaluateFlux(h, x2, pos)
      Flux    == MatAdd(Flux0, FluxNbr)
      ws      == Max(GetWaveSpeed(h, x1, normal, pos), GetWaveSpeed(h, x2, normal, pos))
      y0      == MatVec(Flux, normal)
      diff    == Subtract(ws, x2, x1)
      y1      == VecAdd(y0, diff)
  IN  [y |-> VecScale(Half, y1), Flux |-> Flux, FluxNbr |-> FluxNbr]

\* the value of y and of the members Flux and FluxNbr when the call returns
LaxFriedrichs(h, x1, x2, normal, pos) ==
  LET Flux0   == EvaluateFlux(h, x1, pos)
      FluxNbr == EvaluateFlux(h, x2, pos)
      Flux    == MatAdd(Flux0, FluxNbr)
      ws      == Max(GetWaveSpeed(h, x1, normal, pos), GetWaveSpeed(h, x2, normal, pos))
      y0      == MatVec(Flux, normal)
      diff    == Subtract(ws, x1, x2)
      y1      == VecAdd(y0, diff)
  IN  [y |-> VecScale(Half, y1), Flux |-> Flux, FluxNbr |-> FluxNbr]

\* one call, on the arguments the caller holds; Flux and FluxNbr are members
LaxFriedrichsCall ==
  /\ ~lf.called
  /\ LET out == LaxFriedrichs(hyp, lf.x1, lf.x2, lf.normal, lf.pos)
     IN  lf' = [lf EXCEPT !.called = TRUE, !.y = out.y, !.Flux = out.Flux,
                          !.FluxNbr = out.FluxNbr]
  /\ UNCHANGED hyp

InitLF ==
  /\ hyp \in HypSystems
  /\ \E x1 \in [1 .. hyp.NumEq -> Vals], x2 \in [1 .. hyp.NumEq -> Vals],
        normal \in Normals(Len(hyp.v)), pos \in Positions :
       lf = [NoLF EXCEPT !.x1 = x1, !.x2 = x2, !.normal = normal, !.pos = pos]
  /\ IdleMain /\ IdleCtor /\ IdleCC

NextLF == LaxFriedrichsCall /\ UNCHANGED <<mainVars, ctorVars, ccVars>>

SpecLF == InitLF /\ [][NextLF]_vars

\* C1: for all x1, x2, every normal and every position, twice the numerical
\* flux y(m) is sum_d (F1(m,d) + F2(m,d)) * n(d) + ws * (x1(m) - x2(m)), with
\* F1 = F(x1), F2 = F(x2) and ws the larger of the two wave speeds, so that
\* y = F(x1) * n when x1 = x2.
C1_LaxFriedrichsFlux ==
  lf.called =>
    LET F1 == EvaluateFlux(hyp, lf.x1, lf.pos)
        F2 == EvaluateFlux(hyp, lf.x2, lf.pos)
        w1 == GetWaveSpeed(hyp, lf.x1, lf.normal, lf.pos)
        w2 == GetWaveSpeed(hyp, lf.x2, lf.normal, lf.pos)
        ws == IF w1 >= w2 THEN w1 ELSE w2
        dim == Len(hyp.v)
    IN  /\ Len(lf.y) = hyp.NumEq
        /\ \A m \in 1 .. hyp.NumEq :
             \* lf.y[m] counts halves: it is twice y(m)
             lf.y[m] = SumTo([d \in 1 .. dim |->
                                 (Whole(F1[m][d]) + Whole(F2[m][d])) * Whole(lf.normal[d])],
                             dim)
                       + Whole(ws) * (Whole(lf.x1[m]) - Whole(lf.x2[m]))
        /\ lf.x1 = lf.x2 =>
             \A m \in 1 .. hyp.NumEq :
               Whole(lf.y[m]) = SumTo([d \in 1 .. dim |->
                                          Whole(F1[m][d]) * Whole(lf.normal[d])], dim)
               /\ lf.y[m] = Fix(Whole(lf.y[m]))

C1_Witness ==
  /\ lf.called /\ hyp.nonlinear /\ hyp.NumEq = 2 /\ Len(hyp.v) = 2
  /\ lf.x1 # lf.x2
  /\ GetWaveSpeed(hyp, lf.x1, lf.normal, lf.pos) < GetWaveSpeed(hyp, lf.x2, lf.normal, lf.pos)
  /\ \E m \in 1 .. 2 : lf.y[m] % 2 = 1

(***************************************************************************)
(* FE_Evolution::ConvergenceCheck.  Here the numbers are whole: a result   *)
(* sqrt(sq)/dt is held as the pair of sq and dt.                           *)
(***************************************************************************)
DtValues  == {1, 2}
TolValues == {0, 1}
Wholes == (0 - MaxVal) .. MaxVal

MassMatrices == {<<<<2, 1>>, <<1, 2>>>>, <<<<3, 0>>, <<1, 2>>>>}
LumpedMasses == {<<3, 3>>, <<1, 2>>}

IDot(a, b)    == SumTo([i \in 1 .. Len(a) |-> a[i] * b[i]], Len(a))
IMatVec(A, x) == [m \in 1 .. Len(A) |-> IDot(A[m], x)]
\* Vector::Norml2, squared
Norml2Sq(a)   == IDot(a, a)

\* lines 269-285, with uOld = u done in the steady-state branch only
ConvergenceRestOneBranch(steady, M, L, dt, tol, u, zNew, uOld0) ==
  IF ~steady
  THEN LET uOld1 == IMatVec(M, zNew)
       IN  [z |-> zNew, uOld |-> uOld1, res |-> [sq |-> Norml2Sq(uOld1), dt |-> dt]]
  ELSE [z |-> zNew, uOld |-> u,
        res |-> [sq |-> SumTo([i \in 1 .. Len(u) |-> (L[i] * zNew[i]) * (L[i] * zNew[i])],
                              Len(u)),
                 dt |-> dt]]

\* lines 269-285: what follows z -= uOld; the members z and uOld and the
\* value returned
ConvergenceRest(steady, M, L, dt, tol, u, zNew, uOld0) ==
  IF ~steady
  THEN LET uOld1 == IMatVec(M, zNew)   \* MassMat->Mult(z, uOld)
       IN  [z |-> zNew, uOld |-> u, res |-> [sq |-> Norml2Sq(uOld1), dt |-> dt]]
  ELSE [z |-> zNew, uOld |-> u,
        res |-> [sq |-> SumTo([i \in 1 .. Len(u) |-> (L[i] * zNew[i]) * (L[i] * zNew[i])],
                              Len(u)),
                 dt |-> dt]]

CCVectors == [1 .. Len(LumpedMassMat) -> Wholes]

Returned(dt, tol, u, first, out) ==
  /\ z' = out.z
  /\ uOld' = out.uOld
  /\ cc' = [called |-> TRUE, crashed |-> FALSE, first |-> first, u |-> u,
            prev |-> uOld, dt |-> dt, tol |-> tol, res |-> out.res]

\* a call with uOld of the size of u
ConvergenceCheck ==
  /\ ~cc.crashed
  /\ \E dt \in DtValues, tol \in TolValues, u \in CCVectors :
       /\ Len(uOld) = Len(u)
       /\ Returned(dt, tol, u, FALSE,
                   ConvergenceRest(hyp.SteadyState, MassMat, LumpedMassMat,
                                   dt, tol, u, VecSub(u, uOld), uOld))
  /\ UNCHANGED <<MassMat, LumpedMassMat>>

\* a call with uOld still empty, as the constructor leaves it: z -= uOld
\* reads past the end of uOld, and z is whatever was read
ConvergenceCheckEmpty ==
  /\ ~cc.crashed
  /\ \E dt \in DtValues, tol \in TolValues, u \in CCVectors, garbage \in CCVectors :
       /\ Len(uOld) # Len(u)
       /\ Returned(dt, tol, u, TRUE,
                   ConvergenceRest(hyp.SteadyState, MassMat, LumpedMassMat,
                                   dt, tol, u, garbage, uOld))
  /\ UNCHANGED <<MassMat, LumpedMassMat>>

\* the same call ending the program: the size check of a debug build, or
\* the read of unmapped memory
ConvergenceCheckCrash ==
  /\ ~cc.crashed
  /\ uOld = <<>>
  /\ cc' = [cc EXCEPT !.crashed = TRUE]
  /\ UNCHANGED <<uOld, z, MassMat, LumpedMassMat>>

InitCC ==
  /\ hyp \in [v : {<<0>>}, NumEq : {1}, nonlinear : {FALSE}, SteadyState : BOOLEAN]
  /\ MassMat \in MassMatrices
  /\ LumpedMassMat \in LumpedMasses
  /\ uOld = <<>>
  /\ z = [i \in 1 .. Len(LumpedMassMat) |-> 0]
  /\ cc = NoCC
  /\ lf = NoLF
  /\ IdleMain /\ IdleCtor

NextCC ==
  /\ \/ ConvergenceCheck
     \/ ConvergenceCheckEmpty
     \/ ConvergenceCheckCrash
  /\ UNCHANGED <<hyp, lf, mainVars, ctorVars>>

SpecCC == InitCC /\ [][NextCC]_vars

\* C9: when a call of ConvergenceCheck returns, in either branch, uOld is
\* the u of that call; the value a call returns after an earlier one is the
\* mass-weighted norm of the difference of the two u divided by dt, whatever
\* tol is, and the product MassMat*z written into uOld does not survive.
C9_ConvergenceCheck ==
  cc.called =>
    /\ uOld = cc.u
    /\ cc.res.dt = cc.dt
    /\ ~cc.first =>
         LET d == [i \in 1 .. Len(cc.u) |-> cc.u[i] - cc.prev[i]]
         IN  /\ z = d
             /\ cc.res.sq =
                  IF hyp.SteadyState
                  THEN SumTo([i \in 1 .. Len(d) |->
                                (LumpedMassMat[i] * d[i]) * (LumpedMassMat[i] * d[i])],
                             Len(d))
                  ELSE SumTo([i \in 1 .. Len(d) |->
                                SumTo([j \in 1 .. Len(d) |-> MassMat[i][j] * d[j]], Len(d))
                                * SumTo([j \in 1 .. Len(d) |-> MassMat[i][j] * d[j]], Len(d))],
                             Len(d))

C9_Witness ==
  /\ cc.called /\ ~cc.first /\ ~hyp.SteadyState
  /\ cc.tol = 1
  /\ cc.u # cc.prev
  /\ IMatVec(MassMat, z) # cc.u
  /\ uOld = cc.u

(***************************************************************************)
(* Reading a log.                                                          *)
(***************************************************************************)
At(s, act, what) == {i \in 1 .. Len(s) : s[i].act = act /\ s[i].what = what}
Has(s, act, what) == At(s, act, what) # {}
Times(s, act, what) == Cardinality(At(s, act, what))
FirstAt(s, act, what) == CHOOSE i \in At(s, act, what) :
                            \A j \in At(s, act, what) : i <= j
Before(s, a1, w1, a2, w2) ==
  \A i \in At(s, a1, w1) : \A j \in At(s, a2, w2) : i < j
Past(r, labels) == pc[r] \in labels

HeapOps == {"new", "open"}
NoWork(s) == \A i \in 1 .. Len(s) :
               /\ s[i].act \notin HeapOps
               /\ s[i].act = "call" =>
                    s[i].what \in {"MPI_Init", "MPI_Comm_size", "MPI_Comm_rank",
                                   "args.AddOption", "args.Parse", "args.Good",
                                   "MPI_Finalize"}

(***************************************************************************)
(* C3: when args.Good() is false every rank calls MPI_Finalize exactly     *)
(* once and returns 1, only rank 0 prints the usage, and nothing is read,  *)
(* built, solved or opened; when it is true only rank 0 prints the options *)
(* and the run returns 0.                                                  *)
(***************************************************************************)
C3_ParseFailure ==
  \A r \in Ranks :
    /\ (~argv.good) =>
         /\ NoWork(log[r])
         /\ ~Has(log[r], "print", "args.PrintOptions")
         /\ exit[r] \in {-1, 1}
         /\ pc[r] = "done" =>
              /\ Times(log[r], "call", "MPI_Finalize") = 1
              /\ exit[r] = 1
              /\ log[r][Len(log[r])] = EvA("return", "main", {}, <<1>>)
              /\ Times(log[r], "print", "args.PrintUsage") = (IF r = 0 THEN 1 ELSE 0)
    /\ argv.good =>
         /\ ~Has(log[r], "print", "args.PrintUsage")
         /\ exit[r] \in {-1, 0}
         /\ pc[r] \notin {"start", "parse"} =>
              Times(log[r], "print", "args.PrintOptions") = (IF r = 0 THEN 1 ELSE 0)
         /\ pc[r] = "done" =>
              /\ exit[r] = 0
              /\ log[r][Len(log[r])] = EvA("return", "main", {}, <<0>>)

C3_Witness ==
  /\ ~argv.good
  /\ \A r \in Ranks : pc[r] = "done" /\ exit[r] = 1
  /\ Has(log[0], "print", "args.PrintUsage")
  /\ \E r \in Ranks : r # 0

(***************************************************************************)
(* C4: the stages of a run, read off the log.                              *)
(***************************************************************************)
StageOrder == <<"parse", "mesh", "spaces", "assemble", "solve", "error", "output">>

StageOf(e) ==
  CASE e.act = "call" /\ e.what = "args.Parse" -> "parse"
    [] e.act = "new" /\ e.what \in {"mesh", "pmesh"} -> "mesh"
    [] e.act = "call" /\ e.what \in {"mesh->UniformRefinement",
           "pmesh->UniformRefinement", "pmesh->ReorientTetMesh"} -> "mesh"
    [] e.act = "new" /\ e.what \in {"fec", "H1fec", "fespace", "H1fespace"} -> "spaces"
    [] e.act = "call" /\ e.what \in {"a->Assemble", "a->Finalize",
           "a_NDH1->Assemble", "a_NDH1->Finalize", "a->AssembleDiagonal"} -> "assemble"
    [] e.act = "new" /\ e.what \in {"NDH1", "Amat"} -> "assemble"
    [] e.act = "call" /\ e.what \in {"cg.Mult", "pcg->Mult"} -> "solve"
    [] e.act = "call" /\ e.what = "x.ComputeL2Error" -> "error"
    [] e.act = "open" -> "output"
    [] e.act = "call" /\ e.what \in {"pmesh->Print", "x.Save", "sol_sock <<"} -> "output"
    [] OTHER -> "-"

StageNo(st) == CHOOSE k \in 1 .. Len(StageOrder) : StageOrder[k] = st
\* the statements of a log that belong to a stage: <<index, number of the stage>>
Marks(s) == {<<i, StageNo(StageOf(s[i]))>> : i \in {j \in 1 .. Len(s) : StageOf(s[j]) # "-"}}

\* C4: in every run that passes option validation, whatever static_cond, pa
\* and visualization are, the stages parse, mesh, spaces, assemble, solve,
\* error, output happen in this order, each entered exactly once (no
\* statement of an earlier stage follows one of a later stage, and no stage
\* is skipped), and the L2 error is computed from x holding the solution.
C4_StageOrder ==
  \A r \in Ranks :
    argv.good =>
      /\ LET marks == Marks(log[r])
             seen  == {m[2] : m \in marks}
         IN  /\ \A a \in marks : \A b \in marks : a[1] < b[1] => a[2] <= b[2]
             /\ \A k \in seen : 1 .. k \subseteq seen
             /\ pc[r] = "done" => seen = 1 .. Len(StageOrder)
      /\ \A i \in At(log[r], "call", "x.ComputeL2Error") : log[r][i].arg = <<"solution">>
      /\ Times(log[r], "call", "x.ComputeL2Error") <= 1

C4_Witness ==
  /\ argv.good
  /\ \E r \in Ranks : /\ pc[r] = "done"
                      /\ opt[r].pa /\ opt[r].static_cond /\ ~opt[r].visualization
                      /\ Has(log[r], "call", "x.ComputeL2Error")
  /\ \E r \in Ranks : pc[r] = "solve"

(***************************************************************************)
(* C5: the serial refinement.                                              *)
(***************************************************************************)
Refined(r) == pc[r] = "parmesh"

\* C5 as stated: for every NE >= 1 the refined serial mesh has at most 1000
\* elements and one more refinement would exceed 1000.
C5_AsStated ==
  \A r \in Ranks :
    Refined(r) => /\ ne[r] <= ElemTarget
                  /\ UniformRefinement(ne[r], meshfile.dim) > ElemTarget

\* C5 amended: the same for every mesh of at most 1000 elements; a larger
\* mesh is left as it is.
C5_LargestRefinement ==
  \A r \in Ranks :
    Refined(r) =>
      IF meshfile.ne <= ElemTarget
      THEN /\ ne[r] <= ElemTarget
           /\ UniformRefinement(ne[r], meshfile.dim) > ElemTarget
           /\ \E k \in 0 .. 10 :
                /\ ne[r] = meshfile.ne * Pow(Pow(2, meshfile.dim), k)
                /\ Times(log[r], "call", "mesh->UniformRefinement") = k
      ELSE /\ ne[r] = meshfile.ne
           /\ ~Has(log[r], "call", "mesh->UniformRefinement")

C5_Witness ==
  \E r \in Ranks : /\ Refined(r)
                   /\ meshfile.ne = 15 /\ meshfile.dim = 2
                   /\ ne[r] = 960
                   /\ Times(log[r], "call", "mesh->UniformRefinement") = 3

(***************************************************************************)
(* C6: the solver of section 10.                                           *)
(***************************************************************************)
\* C6 as stated: exactly one solver path runs, chosen by pa alone (cg with
\* the Jacobi smoother when pa, the hypre PCG with the AMS preconditioner
\* otherwise), and the solver's preconditioner is set before its Mult.
C6_PreconditionedSolve ==
  \A r \in Ranks :
    Past(r, {"error", "save", "vis", "free", "done"}) /\ argv.good =>
      /\ Times(log[r], "call", "cg.Mult") = (IF opt[r].pa THEN 1 ELSE 0)
      /\ Times(log[r], "call", "pcg->Mult") = (IF opt[r].pa THEN 0 ELSE 1)
      /\ opt[r].pa =>
           /\ Has(log[r], "call", "cg.SetPreconditioner")
           /\ Before(log[r], "call", "cg.SetPreconditioner", "call", "cg.Mult")
      /\ ~opt[r].pa =>
           /\ Has(log[r], "call", "pcg->SetPreconditioner")
           /\ Before(log[r], "call", "pcg->SetPreconditioner", "call", "pcg->Mult")

(***************************************************************************)
(* C7: the output files and the socket.                                    *)
(***************************************************************************)
DigitValue(c) == CHOOSE d \in 0 .. 9 : DigitChar[d + 1] = c
IsDigit(c) == \E d \in 0 .. 9 : DigitChar[d + 1] = c
RECURSIVE Decimal(_)
Decimal(s) == IF s = <<>> THEN 0
              ELSE 10 * Decimal(SubSeq(s, 1, Len(s) - 1)) + DigitValue(s[Len(s)])

\* name is prefix followed by exactly six digits that read as rank
NamesRank(name, prefix, rank) ==
  /\ Len(name) = Len(prefix) + 6
  /\ SubSeq(name, 1, Len(prefix)) = prefix
  /\ \A i \in Len(prefix) + 1 .. Len(name) : IsDigit(name[i])
  /\ Decimal(SubSeq(name, Len(prefix) + 1, Len(name))) = rank

\* C7: every run that passes option validation writes on each rank one mesh
\* file "mesh.<rank, 6 digits>" and one solution file "sol.<rank, 6 digits>"
\* whatever visualization is; the socket is opened and written iff
\* visualization is true, and after both files have been written.
C7_Output ==
  \A r \in Ranks :
    /\ Past(r, {"vis", "free", "done"}) /\ argv.good =>
         /\ Times(log[r], "open", "ofstream mesh_ofs") = 1
         /\ Times(log[r], "open", "ofstream sol_ofs") = 1
         /\ Times(log[r], "call", "pmesh->Print") = 1
         /\ Times(log[r], "call", "x.Save") = 1
         /\ NamesRank(log[r][FirstAt(log[r], "open", "ofstream mesh_ofs")].arg,
                      <<"m", "e", "s", "h", ".">>, r)
         /\ NamesRank(log[r][FirstAt(log[r], "open", "ofstream sol_ofs")].arg,
                      <<"s", "o", "l", ".">>, r)
         /\ Before(log[r], "open", "ofstream mesh_ofs", "call", "pmesh->Print")
         /\ Before(log[r], "open", "ofstream sol_ofs", "call", "x.Save")
    /\ Past(r, {"free", "done"}) /\ argv.good =>
         /\ Times(log[r], "open", "socketstream sol_sock")
              = (IF opt[r].visualization THEN 1 ELSE 0)
         /\ Times(log[r], "call", "sol_sock <<")
              = (IF opt[r].visualization THEN 1 ELSE 0)
    /\ \A i \in At(log[r], "open", "socketstream sol_sock") :
         /\ log[r][i].arg = <<"localhost", "1", "9", "9", "1", "6">>
         /\ opt[r].visualization
         /\ Before(log[r], "call", "pmesh->Print", "open", "socketstream sol_sock")
         /\ Before(log[r], "call", "x.Save", "open", "socketstream sol_sock")
         /\ Before(log[r], "close", "ofstream mesh_ofs", "open", "socketstream sol_sock")
         /\ Before(log[r], "close", "ofstream sol_ofs", "open", "socketstream sol_sock")
         /\ Has(log[r], "call", "pmesh->Print") /\ Has(log[r], "call", "x.Save")
         /\ Before(log[r], "open", "socketstream sol_sock", "call", "sol_sock <<")

C7_Witness ==
  /\ argv.good
  /\ \E r \in Ranks : /\ r # 0 /\ pc[r] = "done" /\ opt[r].visualization
                      /\ Has(log[r], "call", "x.Save")
                      /\ Has(log[r], "call", "sol_sock <<")

(***************************************************************************)
(* C8: the heap objects of main.                                           *)
(***************************************************************************)
BranchObjects == {"NDH1", "pcg", "Amat"}
EndObjects    == {"a", "a_NDH1", "sigma", "muinv", "fespace", "H1fespace",
                  "fec", "H1fec", "pmesh"}
HeapObjects   == {"mesh"} \cup BranchObjects \cup EndObjects

\* <<x, y>>: x refers to y, so x is to be deleted before y
RefersTo == {<<"a", "fespace">>, <<"a_NDH1", "fespace">>, <<"a_NDH1", "H1fespace">>,
             <<"a", "sigma">>, <<"a_NDH1", "muinv">>,
             <<"fespace", "fec">>, <<"H1fespace", "H1fec">>,
             <<"fespace", "pmesh">>, <<"H1fespace", "pmesh">>}

\* o is allocated and not yet freed when statement i runs, given where o is
\* allocated (news) and freed (dels)
Live(news, dels, i) == (\E j \in news : j < i) /\ (\A j \in dels : j >= i)

====
